---- MODULE Spec2Model ----
(***************************************************************************)
(* Model of server.py: the SMTP client conversation of send_smtp_message   *)
(* (one connection, the command/reply sequence, the DATA transformation,   *)
(* the except/finally exit paths) against a nondeterministic peer.         *)
(*                                                                         *)
(* Text is a sequence of one-character strings.  The fixed text of a       *)
(* command ("EHLO ", an address) is a single multi-character element.      *)
(***************************************************************************)
EXTENDS Integers, Sequences, FiniteSets, TLC

\* ------------------------------------------------------------------ bounds
\* Longest message content of the specification that ranges over contents.
MaxContent == 4
\* Longest recipient list passed to send_smtp_message.
MaxRcpt == 2
\* Bytes of a reply the model keeps exactly: a longer reply keeps its first
\* MaxData - 2 bytes and its last 2 (all that startswith/endswith can see).
MaxData == 7

\* --------------------------------------------------------------- constants
APP_DOMAIN == "mydomain.com"
CRLF == <<"\r", "\n">>
LF == <<"\n">>
\* str.strip() with no argument removes these (of the model's alphabet).
Whitespace == {" ", "\t", "\r", "\n"}
\* The one byte of the model's alphabet that is not valid UTF-8.
InvalidUtf8 == {"0xFF"}

\* ------------------------------------------------------- python str helpers
StartsWith(str, prefix) ==
    /\ Len(str) >= Len(prefix)
    /\ SubSeq(str, 1, Len(prefix)) = prefix

EndsWith(str, suffix) ==
    /\ Len(str) >= Len(suffix)
    /\ SubSeq(str, Len(str) - Len(suffix) + 1, Len(str)) = suffix

RECURSIVE LStrip(_)
LStrip(str) ==
    IF str # <<>> /\ Head(str) \in Whitespace THEN LStrip(Tail(str)) ELSE str

RECURSIVE RStrip(_)
RStrip(str) ==
    IF str # <<>> /\ str[Len(str)] \in Whitespace
    THEN RStrip(SubSeq(str, 1, Len(str) - 1))
    ELSE str

\* Mutant of Strip: only the trailing whitespace is removed (rstrip).
Strip_TrailingOnly(str) == RStrip(str)

\* str.strip()
Strip(str) == RStrip(LStrip(str))

\* bytes.decode('utf-8', errors='ignore'): undecodable bytes are dropped.
Decode(bytes) == SelectSeq(bytes, LAMBDA b : b \notin InvalidUtf8)

\* str.replace(old, new), old non-empty: left to right, non-overlapping.
RECURSIVE Replace(_, _, _)
Replace(str, old, new) ==
    IF Len(str) < Len(old) THEN str
    ELSE IF StartsWith(str, old)
         THEN new \o Replace(SubSeq(str, Len(old) + 1, Len(str)), old, new)
         ELSE <<Head(str)>> \o Replace(Tail(str), old, new)

\* str.split(sep), sep non-empty: the pieces between the occurrences of sep.
RECURSIVE SplitFrom(_, _, _)
SplitFrom(str, sep, line) ==
    IF Len(str) < Len(sep) THEN <<line \o str>>
    ELSE IF StartsWith(str, sep)
         THEN <<line>> \o SplitFrom(SubSeq(str, Len(sep) + 1, Len(str)), sep, <<>>)
         ELSE SplitFrom(Tail(str), sep, Append(line, Head(str)))

Split(str, sep) == SplitFrom(str, sep, <<>>)

\* sep.join(lines)
RECURSIVE Join(_, _)
Join(sep, lines) ==
    IF lines = <<>> THEN <<>>
    ELSE IF Len(lines) = 1 THEN lines[1]
    ELSE lines[1] \o sep \o Join(sep, Tail(lines))

\* str(expected_code)
CodeStr(code) ==
    CASE code = 220 -> <<"2", "2", "0">>
      [] code = 221 -> <<"2", "2", "1">>
      [] code = 250 -> <<"2", "5", "0">>
      [] code = 354 -> <<"3", "5", "4">>

\* ------------------------------------------------- the DATA transformation
\* Mutant of Normalize: the first replace is left out.
Normalize_NoCollapse(raw) == Replace(raw, LF, CRLF)

\* data_to_send: CRLF collapsed to LF, then every LF expanded to CRLF.
Normalize(raw) == Replace(Replace(raw, CRLF, LF), LF, CRLF)

\* Mutant of StuffLine: only a line that is exactly "." is stuffed.
StuffLine_LoneDotOnly(line) ==
    IF line = <<".">> THEN <<".">> \o line ELSE line

\* One turn of the dot-stuffing loop.
StuffLine(line) ==
    IF StartsWith(line, <<".">>) THEN <<".">> \o line ELSE line

\* stuffed_lines
StuffedLines(data_to_send) ==
    LET lines == Split(data_to_send, CRLF)
    IN  [k \in 1..Len(lines) |-> StuffLine(lines[k])]

\* Mutant of StuffedData: the CRLF after the last line is left out.
StuffedData_NoTrailingCRLF(raw) == Join(CRLF, StuffedLines(Normalize(raw)))

\* Mutant of StuffedData: the lines are stuffed before the line endings are
\* normalised.
StuffedData_StuffsBeforeNormalizing(raw) ==
    Normalize(Join(CRLF, StuffedLines(raw))) \o CRLF

\* stuffed_data
StuffedData(raw) == Join(CRLF, StuffedLines(Normalize(raw))) \o CRLF

\* ----------------------------------------------------------- the commands
EhloCmd == <<"EHLO ", APP_DOMAIN>>
MailCmd(from) == <<"MAIL FROM:<", from, ">">>
RcptCmd(to) == <<"RCPT TO:<", to, ">">>
DataCmd == <<"DATA">>
DotCmd == <<".">>
QuitCmd == <<"QUIT">>

\* f"{cmd}\r\n".encode('utf-8'); the model's text is ASCII, one byte each.
CommandBytes(cmd) == cmd \o CRLF

\* ------------------------------------------------------------ the inputs
Sender == "alice@mydomain.com"
AddressBook == <<"bob@mydomain.com", "carol@mydomain.com", "dave@mydomain.com">>
RcptLists == {SubSeq(AddressBook, 1, n) : n \in 1..MaxRcpt}

HelloBob ==
    <<"H", "e", "l", "l", "o", " ", "B", "o", "b", "\n",
      ".", "S", "i", "g", "n", "a", "t", "u", "r", "e", "\n">>
Messages ==
    { HelloBob,
      <<".">>,
      <<"a", "\r", "\n", ".", "\r", "\n", ".", ".", "b">>,
      <<"a", "\r", ".", "\n", "\r", "\r", "\n", "b">> }

\* Every content of at most MaxContent characters over an alphabet that has
\* a plain character, the dot and the two line-ending characters.
Alphabet == {"a", ".", "\r", "\n"}
Contents == UNION {[1..n -> Alphabet] : n \in 1..MaxContent}

\* ---------------------------------------------------------------- the peer
\* Reply lines the peer chooses from, each CRLF-terminated.
Lines ==
    { <<"2", "2", "0">> \o CRLF,
      <<"2", "5", "0">> \o CRLF,
      <<"3", "5", "4">> \o CRLF,
      <<"2", "2", "1">> \o CRLF,
      <<"5", "5", "0">> \o CRLF,
      <<"2", "5", "0", "1">> \o CRLF,
      <<" ", "2", "2", "0">> \o CRLF }
\* The same replies cut short before their CRLF.
Partials == {SubSeq(l, 1, Len(l) - 2) : l \in Lines}
\* A byte the peer may keep sending that never completes a CRLF.
DripByte == "x"

\* ---------------------------------------------------------------- the state
VARIABLES
    mail_from,      \* argument: reverse-path
    rcpt_to_list,   \* argument: recipients
    raw_message,    \* argument: message content
    pc,             \* position of the call in send_smtp_message
    rcpt,           \* index of the for loop over rcpt_to_list
    s,              \* the socket: "None", "open" or "closed"
    opened,         \* number of connections this call has opened
    peer,           \* the peer's end: "up" or "closed"
    wire,           \* bytes sent by the peer and not yet received
    data,           \* read_response's buffer
    sent,           \* every sendall of the call, in order
    replies,        \* what each read_response returned before decode/strip
    exc,            \* the exception in flight, or NoExc
    printed,        \* the exception the except clause printed, or NoExc
    ret,            \* the value being returned: "none", "True", "False", "raised"
    data_to_send,   \* local: the content with its line endings normalised
    stuffed_data,   \* local: the dot-stuffed content
    cur,            \* the thread that is running
    parked,         \* the call of the thread that is not running, or NoCall
    users,          \* the user database: email -> record
    sessions,       \* the session map: token -> email
    request,        \* per handler thread: the request it is in the middle of
    answered        \* the response sent last

\* The state of one call of send_smtp_message (its arguments, its locals,
\* its connection).
call == <<mail_from, rcpt_to_list, raw_message, pc, rcpt, s, opened, peer,
          wire, data, sent, replies, exc, printed, ret, data_to_send,
          stuffed_data>>

locals == <<data_to_send, stuffed_data>>
web == <<users, sessions, request, answered>>
others == <<cur, parked, web>>

vars == <<call, others>>

\* No second call is in progress.
NoCall == [pc |-> "none"]

\* The threads of the development server that handle requests.
Threads == {1, 2}
\* A thread between two requests.
Idle == [op |-> "idle"]
NoResponse == [by |-> 0, op |-> "none"]
\* An empty dict.
EmptyDict == [k \in {} |-> k]

\* The module's globals as the import leaves them; no request yet.
NoRequests ==
    /\ users = EmptyDict
    /\ sessions = EmptyDict
    /\ request = [t \in Threads |-> Idle]
    /\ answered = NoResponse

NoExc == [type |-> "none", text |-> "", expected |-> <<>>, response |-> <<>>]

ReadPcs == {"greeting", "ehlo_read", "mail_read", "rcpt_read",
            "data_read", "dot_read", "quit_read"}
SendPcs == {"ehlo_send", "mail_send", "rcpt_send", "data_send",
            "body_send", "dot_send", "quit_send"}

\* A call at its entry: nothing done yet.
AtEntry ==
    /\ pc = "connect"
    /\ rcpt = 0
    /\ s = "None"
    /\ opened = 0
    /\ peer = "up"
    /\ wire = <<>>
    /\ data = <<>>
    /\ sent = <<>>
    /\ replies = <<>>
    /\ exc = NoExc
    /\ printed = NoExc
    /\ ret = "none"
    /\ data_to_send = <<>>
    /\ stuffed_data = <<>>

\* One thread only.
SingleThread ==
    /\ cur = 1
    /\ parked = NoCall

Init ==
    /\ mail_from = Sender
    /\ rcpt_to_list \in RcptLists
    /\ raw_message \in Messages
    /\ AtEntry
    /\ SingleThread
    /\ NoRequests

inputs == <<mail_from, rcpt_to_list, raw_message>>

\* ------------------------------------------------------- raising, catching
\* Classes of the exceptions the call can raise; all derive from Exception.
ExceptionClasses ==
    {"Exception", "ConnectionRefusedError", "ConnectionResetError",
     "BrokenPipeError", "timeout"}

\* Mutant of Catches: the clause names the socket errors only.
Catches_SocketErrorsOnly(type) == type \in ExceptionClasses \ {"Exception"}

\* except Exception as e
Catches(type) == type \in ExceptionClasses

\* An exception object: its class and the parts of its message.
Error(type, text, expected, response) ==
    [type |-> type, text |-> text, expected |-> expected, response |-> response]

\* A raise inside the try block: control leaves for the except clause.
Raise(e) ==
    /\ exc' = e
    /\ pc' = "raise"

\* ---------------------------------------------------------- the protocol
\* expected_code of the reply read at each position.
Expected(p) ==
    CASE p = "greeting" -> 220
      [] p \in {"ehlo_read", "mail_read", "rcpt_read", "dot_read"} -> 250
      [] p = "data_read" -> 354
      [] p = "quit_read" -> 221

\* Mutant of GreetingOk: any 2xx greeting is taken.
GreetingOk_Any2xx(greeting) == StartsWith(greeting, <<"2">>)

\* if not greeting.startswith('220')
GreetingOk(greeting) == StartsWith(greeting, <<"2", "2", "0">>)

\* Mutant of ReplyOk: only the class digit of the code is compared.
ReplyOk_FirstDigit(response, expected_code) ==
    StartsWith(response, <<Head(CodeStr(expected_code))>>)

\* if not response.startswith(str(expected_code))
ReplyOk(response, expected_code) == StartsWith(response, CodeStr(expected_code))

\* The bytes each sendall writes.
Payload(p) ==
    CASE p = "ehlo_send" -> CommandBytes(EhloCmd)
      [] p = "mail_send" -> CommandBytes(MailCmd(mail_from))
      [] p = "rcpt_send" -> CommandBytes(RcptCmd(rcpt_to_list[rcpt]))
      [] p = "data_send" -> CommandBytes(DataCmd)
      [] p = "body_send" -> stuffed_data
      [] p = "dot_send"  -> CommandBytes(DotCmd)
      [] p = "quit_send" -> CommandBytes(QuitCmd)

\* Mutant of AfterSend: MAIL FROM is written without awaiting EHLO's reply.
AfterSend_Pipelined(p) ==
    CASE p = "ehlo_send" -> "mail_send"
      [] p = "mail_send" -> "mail_read"
      [] p = "rcpt_send" -> "rcpt_read"
      [] p = "data_send" -> "data_read"
      [] p = "body_send" -> "dot_send"
      [] p = "dot_send"  -> "dot_read"
      [] p = "quit_send" -> "quit_read"

\* Where the call is once a sendall has returned.
AfterSend(p) ==
    CASE p = "ehlo_send" -> "ehlo_read"
      [] p = "mail_send" -> "mail_read"
      [] p = "rcpt_send" -> "rcpt_read"
      [] p = "data_send" -> "data_read"
      [] p = "body_send" -> "dot_send"
      [] p = "dot_send"  -> "dot_read"
      [] p = "quit_send" -> "quit_read"

\* for rcpt in rcpt_to_list: is there a recipient after index k?
MoreRcpt(k) == k < Len(rcpt_to_list)

\* Where the call goes once the reply read at p has been accepted.
AfterReply(p) ==
    CASE p = "greeting"  -> "ehlo_send"
      [] p = "ehlo_read" -> "mail_send"
      [] p = "mail_read" -> IF MoreRcpt(0) THEN "rcpt_send" ELSE "data_send"
      [] p = "rcpt_read" -> IF MoreRcpt(rcpt) THEN "rcpt_send" ELSE "data_send"
      [] p = "data_read" -> "transform"
      [] p = "dot_read"  -> "quit_send"
      [] p = "quit_read" -> "return"

\* The buffer as the model keeps it (see MaxData).
Trunc(d) ==
    IF Len(d) <= MaxData THEN d
    ELSE SubSeq(d, 1, MaxData - 2) \o SubSeq(d, Len(d) - 1, Len(d))

\* The reply was accepted: the call moves on (the for loop takes its next
\* recipient).
Accepted ==
    /\ pc' = AfterReply(pc)
    /\ rcpt' = IF AfterReply(pc) = "rcpt_send" THEN rcpt + 1 ELSE rcpt
    /\ exc' = exc

\* Mutant of Rejected: a rejected recipient is skipped and the loop goes on.
Rejected_SkipsRcpt(e) ==
    IF pc = "rcpt_read"
    THEN Accepted
    ELSE /\ Raise(e)
         /\ rcpt' = rcpt

\* raise Exception(...): the reply did not start with the expected code.
Rejected(e) ==
    /\ Raise(e)
    /\ rcpt' = rcpt

\* read_response has left its loop with buffer d: decode, strip, then the
\* caller's check of the status code, which raises or moves on.
ReadReturns(d) ==
    LET response == Strip(Decode(d))
        ok == IF pc = "greeting" THEN GreetingOk(response)
              ELSE ReplyOk(response, Expected(pc))
        e  == IF pc = "greeting"
              THEN Error("Exception", "Did not receive 220 initial greeting.",
                         <<>>, <<>>)
              ELSE Error("Exception", "SMTP Error",
                         CodeStr(Expected(pc)), response)
    IN  /\ replies' = Append(replies, d)
        /\ data' = <<>>
        /\ IF ok THEN Accepted ELSE Rejected(e)

\* s = socket.create_connection(..., timeout=5)
Connect ==
    /\ pc = "connect"
    /\ s' = "open"
    /\ opened' = opened + 1
    /\ pc' = "greeting"
    /\ UNCHANGED <<inputs, locals, others, rcpt, peer, wire, data, sent, replies, exc, printed, ret>>

\* create_connection raises: refused, or no answer within the timeout.
ConnectFail ==
    /\ pc = "connect"
    /\ \E type \in {"ConnectionRefusedError", "timeout"} :
          Raise(Error(type, "connect", <<>>, <<>>))
    /\ UNCHANGED <<inputs, locals, others, rcpt, s, opened, peer, wire, data, sent, replies,
                   printed, ret>>

\* chunk = s.recv(1) returns a byte.
Recv ==
    /\ pc \in ReadPcs
    /\ wire # <<>>
    /\ wire' = Tail(wire)
    /\ LET d == Trunc(Append(data, Head(wire)))
       IN  IF EndsWith(d, CRLF)
           THEN ReadReturns(d)
           ELSE /\ data' = d
                /\ UNCHANGED <<pc, rcpt, replies, exc>>
    /\ UNCHANGED <<inputs, locals, others, s, opened, peer, sent, printed, ret>>

\* s.recv(1) returns b"": the peer has closed; the loop breaks.
RecvEOF ==
    /\ pc \in ReadPcs
    /\ wire = <<>>
    /\ peer = "closed"
    /\ ReadReturns(data)
    /\ UNCHANGED <<inputs, locals, others, s, opened, peer, wire, sent, printed, ret>>

\* s.recv(1) raises socket.timeout: nothing arrived for the socket's timeout.
RecvTimeout ==
    /\ pc \in ReadPcs
    /\ wire = <<>>
    /\ peer = "up"
    /\ Raise(Error("timeout", "timed out", <<>>, <<>>))
    /\ UNCHANGED <<inputs, locals, others, rcpt, s, opened, peer, wire, data, sent, replies,
                   printed, ret>>

\* s.recv(1) raises: the peer reset the connection.
RecvReset ==
    /\ pc \in ReadPcs
    /\ wire = <<>>
    /\ peer = "closed"
    /\ Raise(Error("ConnectionResetError", "reset", <<>>, <<>>))
    /\ UNCHANGED <<inputs, locals, others, rcpt, s, opened, peer, wire, data, sent, replies,
                   printed, ret>>

\* The lines between DATA's reply and the write of the content: normalise
\* the line endings, dot-stuff the lines.
Transform ==
    /\ pc = "transform"
    /\ data_to_send' = Normalize(raw_message)
    /\ stuffed_data' = StuffedData(raw_message)
    /\ pc' = "body_send"
    /\ UNCHANGED <<inputs, others, rcpt, s, opened, peer, wire, data, sent,
                   replies, exc, printed, ret>>

\* s.sendall(...) returns.
SendAll ==
    /\ pc \in SendPcs
    /\ sent' = Append(sent, Payload(pc))
    /\ pc' = AfterSend(pc)
    /\ UNCHANGED <<inputs, locals, others, rcpt, s, opened, peer, wire, data, replies, exc,
                   printed, ret>>

\* s.sendall(...) raises: the peer has closed the connection.
SendFail ==
    /\ pc \in SendPcs
    /\ peer = "closed"
    /\ Raise(Error("BrokenPipeError", "broken pipe", <<>>, <<>>))
    /\ UNCHANGED <<inputs, locals, others, rcpt, s, opened, peer, wire, data, sent, replies,
                   printed, ret>>

\* return True
ReturnTrue ==
    /\ pc = "return"
    /\ ret' = "True"
    /\ pc' = "finally"
    /\ UNCHANGED <<inputs, locals, others, rcpt, s, opened, peer, wire, data, sent, replies,
                   exc, printed>>

\* Mutant of Except: the clause prints and has no return statement, so the
\* call falls off its end and gives None.
Except_FallsThrough ==
    /\ pc = "raise"
    /\ IF Catches(exc.type)
       THEN /\ printed' = exc
            /\ exc' = NoExc
            /\ ret' = "None"
       ELSE /\ ret' = "raised"
            /\ UNCHANGED <<printed, exc>>
    /\ pc' = "finally"
    /\ UNCHANGED <<inputs, locals, others, rcpt, s, opened, peer, wire, data, sent, replies>>

\* except Exception as e: print, return False.  An exception the clause
\* does not catch goes on to the caller once the finally clause has run.
Except ==
    /\ pc = "raise"
    /\ IF Catches(exc.type)
       THEN /\ printed' = exc
            /\ exc' = NoExc
            /\ ret' = "False"
       ELSE /\ ret' = "raised"
            /\ UNCHANGED <<printed, exc>>
    /\ pc' = "finally"
    /\ UNCHANGED <<inputs, locals, others, rcpt, s, opened, peer, wire, data, sent, replies>>

\* Mutant of Finally: the close sits at the end of the try body, so only
\* the successful path reaches it.
Finally_ClosesOnSuccessOnly ==
    /\ pc = "finally"
    /\ s' = IF s # "None" /\ ret = "True" THEN "closed" ELSE s
    /\ pc' = "returned"
    /\ UNCHANGED <<inputs, locals, others, rcpt, opened, peer, wire, data, sent, replies, exc,
                   printed, ret>>

\* finally: if s: s.close()
Finally ==
    /\ pc = "finally"
    /\ s' = IF s # "None" THEN "closed" ELSE s
    /\ pc' = "returned"
    /\ UNCHANGED <<inputs, locals, others, rcpt, opened, peer, wire, data, sent, replies, exc,
                   printed, ret>>

\* ------------------------------------------------------- the peer's moves
Awaited == s = "open" /\ peer = "up" /\ pc \in ReadPcs /\ wire = <<>>

\* The peer answers with a whole reply line.
PeerReply ==
    /\ Awaited
    /\ data = <<>>
    /\ \E l \in Lines : wire' = l
    /\ UNCHANGED <<inputs, locals, others, pc, rcpt, s, opened, peer, data, sent, replies,
                   exc, printed, ret>>

\* The peer starts a reply and does not terminate it.
PeerPartial ==
    /\ Awaited
    /\ data = <<>>
    /\ \E l \in Partials : wire' = l
    /\ UNCHANGED <<inputs, locals, others, pc, rcpt, s, opened, peer, data, sent, replies,
                   exc, printed, ret>>

\* The peer sends one more byte that completes no CRLF, before the
\* client's timeout expires.
PeerDrip ==
    /\ Awaited
    /\ wire' = <<DripByte>>
    /\ UNCHANGED <<inputs, locals, others, pc, rcpt, s, opened, peer, data, sent, replies,
                   exc, printed, ret>>

\* The peer answers with the reply the step expects.
PeerExpected ==
    /\ Awaited
    /\ data = <<>>
    /\ wire' = CodeStr(Expected(pc)) \o CRLF
    /\ UNCHANGED <<inputs, locals, others, pc, rcpt, s, opened, peer, data,
                   sent, replies, exc, printed, ret>>

\* The peer closes its end.
PeerClose ==
    /\ s = "open"
    /\ peer = "up"
    /\ pc \in ReadPcs \cup SendPcs
    /\ peer' = "closed"
    /\ UNCHANGED <<inputs, locals, others, pc, rcpt, s, opened, wire, data, sent, replies,
                   exc, printed, ret>>

\* ------------------------------------------------------ the specifications
Client ==
    \/ Connect
    \/ ConnectFail
    \/ Recv
    \/ RecvEOF
    \/ RecvTimeout
    \/ RecvReset
    \/ Transform
    \/ SendAll
    \/ SendFail
    \/ ReturnTrue
    \/ Except
    \/ Finally

Peer ==
    \/ PeerReply
    \/ PeerPartial
    \/ PeerDrip
    \/ PeerClose

Next == Client \/ Peer

Spec == Init /\ [][Next]_vars

\* The call is a running thread: whenever it can take a step it takes one.
\* Nothing is assumed of the peer.
FairSpec == Spec /\ WF_vars(Client)

\* ------------------------------------------------------ two calls at once
\* The running thread's call, as a record.
Running ==
    [mail_from |-> mail_from,
     rcpt_to_list |-> rcpt_to_list,
     raw_message |-> raw_message,
     pc |-> pc,
     rcpt |-> rcpt,
     s |-> s,
     opened |-> opened,
     peer |-> peer,
     wire |-> wire,
     data |-> data,
     sent |-> sent,
     replies |-> replies,
     exc |-> exc,
     printed |-> printed,
     ret |-> ret,
     data_to_send |-> data_to_send,
     stuffed_data |-> stuffed_data]

\* A call at its entry with the given arguments, as a record.
EntryOf(from, rcpts, msg) ==
    [mail_from |-> from, rcpt_to_list |-> rcpts, raw_message |-> msg,
     pc |-> "connect", rcpt |-> 0, s |-> "None", opened |-> 0, peer |-> "up",
     wire |-> <<>>, data |-> <<>>, sent |-> <<>>, replies |-> <<>>,
     exc |-> NoExc, printed |-> NoExc, ret |-> "none",
     data_to_send |-> <<>>, stuffed_data |-> <<>>]

\* Mutant of Switch: the socket is a module-level name, so the thread that
\* resumes finds the socket the other thread left there.
Switch_SharedSocket ==
    /\ parked # NoCall
    /\ parked' = Running
    /\ cur' = 3 - cur
    /\ s' = s
    /\ mail_from' = parked.mail_from
    /\ rcpt_to_list' = parked.rcpt_to_list
    /\ raw_message' = parked.raw_message
    /\ pc' = parked.pc
    /\ rcpt' = parked.rcpt
    /\ opened' = parked.opened
    /\ peer' = parked.peer
    /\ wire' = parked.wire
    /\ data' = parked.data
    /\ sent' = parked.sent
    /\ replies' = parked.replies
    /\ exc' = parked.exc
    /\ printed' = parked.printed
    /\ ret' = parked.ret
    /\ data_to_send' = parked.data_to_send
    /\ stuffed_data' = parked.stuffed_data
    /\ UNCHANGED web

\* The other thread is scheduled.  Every name of send_smtp_message is a
\* local of the call (s and the two closures over it included), so each
\* thread resumes with its own.
Switch ==
    /\ parked # NoCall
    /\ parked' = Running
    /\ cur' = 3 - cur
    /\ mail_from' = parked.mail_from
    /\ rcpt_to_list' = parked.rcpt_to_list
    /\ raw_message' = parked.raw_message
    /\ pc' = parked.pc
    /\ rcpt' = parked.rcpt
    /\ s' = parked.s
    /\ opened' = parked.opened
    /\ peer' = parked.peer
    /\ wire' = parked.wire
    /\ data' = parked.data
    /\ sent' = parked.sent
    /\ replies' = parked.replies
    /\ exc' = parked.exc
    /\ printed' = parked.printed
    /\ ret' = parked.ret
    /\ data_to_send' = parked.data_to_send
    /\ stuffed_data' = parked.stuffed_data
    /\ UNCHANGED web

\* Two requests are being served at once, each with its own message.
ConcInit ==
    /\ mail_from = Sender
    /\ rcpt_to_list = <<AddressBook[1]>>
    /\ raw_message = HelloBob
    /\ AtEntry
    /\ cur = 1
    /\ parked = EntryOf(AddressBook[1], <<AddressBook[2]>>, <<".">>)
    /\ NoRequests

ConcNext ==
    \/ Switch
    \/ Connect
    \/ ConnectFail
    \/ Recv
    \/ RecvEOF
    \/ RecvTimeout
    \/ Transform
    \/ SendAll
    \/ SendFail
    \/ ReturnTrue
    \/ Except
    \/ Finally
    \/ PeerExpected
    \/ PeerClose

ConcSpec == ConcInit /\ [][ConcNext]_vars

\* One call for every content, against a peer that accepts every step.
DataInit ==
    /\ mail_from = Sender
    /\ rcpt_to_list = <<AddressBook[1]>>
    /\ raw_message \in Contents
    /\ AtEntry
    /\ SingleThread
    /\ NoRequests

DataNext ==
    \/ Connect
    \/ PeerExpected
    \/ Recv
    \/ Transform
    \/ SendAll
    \/ ReturnTrue
    \/ Finally

DataSpec == DataInit /\ [][DataNext]_vars

\* ---------------------------------------- vocabulary of the claims below
\* These are stated apart from the operators above that model the code.
Blank == {" ", "\t", "\r", "\n"}
DigitChar == <<"0", "1", "2", "3", "4", "5", "6", "7", "8", "9">>
CodeDigits(code) ==
    << DigitChar[(code \div 100) + 1],
       DigitChar[((code \div 10) % 10) + 1],
       DigitChar[(code % 10) + 1] >>

NonBlankAt(raw) == {k \in 1..Len(raw) : raw[k] \notin Blank}
FirstNonBlank(raw) == CHOOSE k \in NonBlankAt(raw) : \A j \in NonBlankAt(raw) : k <= j
LastNonBlank(raw) == CHOOSE k \in NonBlankAt(raw) : \A j \in NonBlankAt(raw) : k >= j

\* The reply text with the blanks around it removed.
Trimmed(raw) ==
    IF NonBlankAt(raw) = {} THEN <<>>
    ELSE SubSeq(raw, FirstNonBlank(raw), LastNonBlank(raw))

\* The reply's first three non-blank characters are the digits of code.
Matched(raw, code) ==
    /\ NonBlankAt(raw) # {}
    /\ FirstNonBlank(raw) + 2 <= Len(raw)
    /\ SubSeq(raw, FirstNonBlank(raw), FirstNonBlank(raw) + 2) = CodeDigits(code)

\* The reply ended with CRLF (it was not cut short by the peer closing).
Terminated(raw) ==
    /\ Len(raw) >= 2
    /\ raw[Len(raw) - 1] = "\r"
    /\ raw[Len(raw)] = "\n"

NRcpt == Len(rcpt_to_list)

\* The codes of a complete session with n recipients, reply by reply.
ExpectedCodesOf(n) ==
    <<220, 250, 250>> \o [k \in 1..n |-> 250] \o <<354, 250, 221>>

ExpectedCodes == ExpectedCodesOf(NRcpt)

\* The first k replies were read and each matched its step's code.
MatchedUpTo(k) ==
    /\ Len(replies) >= k
    /\ \A j \in 1..k : Matched(replies[j], ExpectedCodes[j])

\* Line-ending normalisation, as one left-to-right pass.
RECURSIVE NormalForm(_)
NormalForm(m) ==
    IF m = <<>> THEN <<>>
    ELSE IF Len(m) >= 2 /\ m[1] = "\r" /\ m[2] = "\n"
         THEN <<"\r", "\n">> \o NormalForm(SubSeq(m, 3, Len(m)))
    ELSE IF m[1] = "\n"
         THEN <<"\r", "\n">> \o NormalForm(Tail(m))
    ELSE <<m[1]>> \o NormalForm(Tail(m))

\* Dot-stuffing, as one left-to-right pass; bol: at the beginning of a line.
RECURSIVE DotStuffed(_, _)
DotStuffed(m, bol) ==
    IF m = <<>> THEN <<>>
    ELSE IF bol /\ m[1] = "."
         THEN <<".", ".">> \o DotStuffed(Tail(m), FALSE)
    ELSE IF Len(m) >= 2 /\ m[1] = "\r" /\ m[2] = "\n"
         THEN <<"\r", "\n">> \o DotStuffed(SubSeq(m, 3, Len(m)), TRUE)
    ELSE <<m[1]>> \o DotStuffed(Tail(m), FALSE)

\* The DATA payload the claims describe, and the terminator line.
DataPayload(m) == DotStuffed(NormalForm(m), TRUE) \o <<"\r", "\n">>
Terminator == <<".", "\r", "\n">>

\* Everything a complete session writes, write by write.
ScriptOf(from, rcpts, msg) ==
    << <<"EHLO ", "mydomain.com", "\r", "\n">>,
       <<"MAIL FROM:<", from, ">", "\r", "\n">> >>
    \o [k \in 1..Len(rcpts) |-> <<"RCPT TO:<", rcpts[k], ">", "\r", "\n">>]
    \o << <<"DATA", "\r", "\n">>,
          DataPayload(msg),
          Terminator,
          <<"QUIT", "\r", "\n">> >>

Script == ScriptOf(mail_from, rcpt_to_list, raw_message)

\* Replies that must have been read and matched before the w-th write:
\* the greeting and one reply per earlier command; the content and the
\* terminator both follow the reply to DATA.
RepliesBefore(w) ==
    IF w <= NRcpt + 4 THEN w ELSE w - 1

Exiting == pc \in {"raise", "finally", "returned"}
Returned == pc = "returned"
Success == Returned /\ ret = "True"
Failure == Returned /\ ret = "False"

\* ------------------------------------------------------------------ claims

\* C1: a returned call's outcome is True exactly when it read the complete
\* sequence of replies (220, 250, 250, one 250 per recipient, 354, 250, 221)
\* and each matched its step's code; every other returned call gives False.
C1_SuccessIffAllRepliesMatched ==
    Returned =>
        /\ ret \in {"True", "False"}
        /\ ret = "True" <=> MatchedUpTo(Len(ExpectedCodes))
        /\ ret = "True" => Len(replies) = Len(ExpectedCodes)

\* C1 witness: the one-recipient session answered 220, 250, 250, 250, 354,
\* 250, 221, each CRLF-terminated, has returned True.
C1_Witness ==
    /\ Success
    /\ NRcpt = 1
    /\ replies = << <<"2", "2", "0", "\r", "\n">>, <<"2", "5", "0", "\r", "\n">>,
                    <<"2", "5", "0", "\r", "\n">>, <<"2", "5", "0", "\r", "\n">>,
                    <<"3", "5", "4", "\r", "\n">>, <<"2", "5", "0", "\r", "\n">>,
                    <<"2", "2", "1", "\r", "\n">> >>

\* C2: a call opens at most one connection, holds none before it connects,
\* and a returned call has no connection still open.
C2_OneConnectionClosedOnReturn ==
    /\ opened <= 1
    /\ opened = 0 <=> s = "None"
    /\ Returned /\ opened = 1 => s = "closed"
    /\ Returned => s # "open"

\* C2 witness: a call that failed after connecting has returned with its
\* connection closed.
C2_Witness == Failure /\ opened = 1 /\ s = "closed" /\ printed.type = "timeout"

\* C3: what has been written is a prefix of the session's script, and the
\* w-th write was made only after the replies before it were read and matched
\* (so the content and the terminator only after a 354 to DATA).
C3_WritesFollowScript ==
    /\ Len(sent) <= Len(Script)
    /\ sent = SubSeq(Script, 1, Len(sent))
    /\ Len(sent) > 0 => MatchedUpTo(RepliesBefore(Len(sent)))
    /\ Len(replies) <= Len(sent) + 1

\* C3 witness: a two-recipient session has written its whole script.
C3_Witness == Returned /\ NRcpt = 2 /\ sent = Script

\* C4: once a greeting that does not start with 220 has been read, the call
\* is on its way out, nothing has been written, and it returns False.
C4_BadGreetingWritesNothing ==
    Len(replies) >= 1 /\ ~Matched(replies[1], 220) =>
        /\ sent = <<>>
        /\ Exiting
        /\ Returned => ret = "False"

\* C4 witness: a call greeted with 550 has returned False.
C4_Witness ==
    /\ Failure
    /\ replies = << <<"5", "5", "0", "\r", "\n">> >>
    /\ sent = <<>>

\* C5: once the reply to the k-th RCPT TO has been read and does not start
\* with 250, the call is on its way out having written EHLO, MAIL FROM and k
\* RCPT TO commands and nothing else, and it returns False.
C5_RcptRejectedStops ==
    \A k \in 1..NRcpt :
        Len(replies) >= 3 + k /\ ~Matched(replies[3 + k], 250) =>
            /\ Len(sent) = 2 + k
            /\ Len(replies) = 3 + k
            /\ Exiting
            /\ Returned => ret = "False"

\* C5 witness: the first recipient was accepted, the second rejected with
\* 550, and the call has returned.
C5_Witness ==
    /\ Returned
    /\ NRcpt = 2
    /\ Len(replies) = 5
    /\ Matched(replies[4], 250)
    /\ replies[5] = <<"5", "5", "0", "\r", "\n">>

\* C6 (as claimed): a returned call that read a reply cut short before its
\* CRLF by the peer closing has returned False.
C6_UnterminatedReplyFails ==
    Returned /\ (\E k \in 1..Len(replies) : ~Terminated(replies[k])) =>
        ret = "False"

\* C7 (as claimed): every call eventually returns.
C7_EventuallyReturns == <>Returned

\* C8: no exception goes past the call: a returned call hands back True or
\* False, and no exception is left in flight.
C8_NoExceptionEscapes ==
    /\ ret # "raised"
    /\ Returned => ret \in {"True", "False"} /\ exc = NoExc

\* C8 witness: a call whose reply check raised has returned False.
C8_Witness == Failure /\ printed.type = "Exception" /\ printed.text = "SMTP Error"

C10_DataPayload ==
    /\ pc = "dot_read" => Len(sent) = NRcpt + 5
    /\ Len(sent) >= NRcpt + 5 =>
          /\ Len(replies) >= NRcpt + 4
          /\ sent[NRcpt + 4] = DataPayload(raw_message)
          /\ sent[NRcpt + 5] = Terminator
          /\ raw_message = HelloBob =>
                sent[NRcpt + 4] =
                    <<"H", "e", "l", "l", "o", " ", "B", "o", "b", "\r", "\n",
                      ".", ".", "S", "i", "g", "n", "a", "t", "u", "r", "e",
                      "\r", "\n", "\r", "\n">>

\* C10 witness: the content of the example and its terminator are written.
C10_Witness ==
    /\ raw_message = HelloBob
    /\ pc = "dot_read"
    /\ Len(sent) = NRcpt + 5


\* ----------------------------------- vocabulary of the claims on contents
\* The call has computed data_to_send and stuffed_data.
Transformed == stuffed_data # <<>>

\* Every LF directly follows a CR and every CR is directly followed by an LF.
UniformCRLF(t) ==
    \A i \in 1..Len(t) :
        /\ t[i] = "\n" => i > 1 /\ t[i - 1] = "\r"
        /\ t[i] = "\r" => i < Len(t) /\ t[i + 1] = "\n"

\* Where a CRLF pair starts in t.
SepAt(t) == {i \in 1..(Len(t) - 1) : t[i] = "\r" /\ t[i + 1] = "\n"}

\* The lines of t: the pieces between its CRLF pairs.
RECURSIVE LinesOf(_)
LinesOf(t) ==
    IF SepAt(t) = {} THEN <<t>>
    ELSE LET i == CHOOSE k \in SepAt(t) : \A j \in SepAt(t) : k <= j
         IN  <<SubSeq(t, 1, i - 1)>> \o LinesOf(SubSeq(t, i + 2, Len(t)))

BeginsWithDot(line) == line # <<>> /\ line[1] = "."

\* Receiver side: one leading dot removed from a line that starts "..".
Destuffed(line) ==
    IF Len(line) >= 2 /\ line[1] = "." /\ line[2] = "." THEN Tail(line) ELSE line

\* The stuffed content without the one CRLF appended after its last line.
Body(stuffed) == SubSeq(stuffed, 1, Len(stuffed) - 2)

\* t holds the five bytes CRLF . CRLF somewhere.
HasLoneDotLine(t) ==
    \/ Len(t) >= 3 /\ SubSeq(t, 1, 3) = <<".", "\r", "\n">>
    \/ \E i \in 1..(Len(t) - 4) :
          SubSeq(t, i, i + 4) = <<"\r", "\n", ".", "\r", "\n">>

\* C11 (as claimed): the normalised content uses CRLF uniformly.
C11_NormalizedIsUniformCRLF ==
    Transformed => UniformCRLF(data_to_send)

\* C12: when no line of the normalised content begins with a dot, the
\* stuffed content is the normalised content followed by one CRLF.
C12_NoDotLineUnaltered ==
    Transformed /\ (\A k \in 1..Len(LinesOf(data_to_send)) :
                        ~BeginsWithDot(LinesOf(data_to_send)[k])) =>
        stuffed_data = data_to_send \o <<"\r", "\n">>

\* C12 witness: a content of two dot-free lines has been transformed.
C12_Witness ==
    /\ Transformed
    /\ raw_message = <<"a", "\n", "a">>
    /\ stuffed_data = <<"a", "\r", "\n", "a", "\r", "\n">>

\* C13: the stuffed content ends with the appended CRLF and has the lines of
\* the normalised content, each line that begins with a dot with one more
\* dot in front and every other line as it was; removing one dot from every
\* line that starts ".." gives the normalised lines back.
C13_StuffingRoundTrip ==
    Transformed =>
        LET orig == LinesOf(data_to_send)
            out  == LinesOf(Body(stuffed_data))
        IN  /\ Len(stuffed_data) >= 2
            /\ SubSeq(stuffed_data, Len(stuffed_data) - 1, Len(stuffed_data))
                  = <<"\r", "\n">>
            /\ Len(out) = Len(orig)
            /\ \A k \in 1..Len(orig) :
                  /\ BeginsWithDot(orig[k]) => out[k] = <<".">> \o orig[k]
                  /\ ~BeginsWithDot(orig[k]) => out[k] = orig[k]
                  /\ Destuffed(out[k]) = orig[k]

\* C13 witness: a content whose lines are "." and ".." has been stuffed.
C13_Witness ==
    /\ Transformed
    /\ raw_message = <<".", "\n", ".", ".">>
    /\ LinesOf(Body(stuffed_data)) = << <<".", ".">>, <<".", ".", ".">> >>

\* C14: normalising the normalised content changes nothing, and a content
\* whose line endings are all CRLF is its own normal form.
C14_NormalizeIdempotent ==
    Transformed =>
        /\ Normalize(data_to_send) = data_to_send
        /\ UniformCRLF(raw_message) => data_to_send = raw_message

\* C14 witness: a content with a bare LF, whose normal form differs from it,
\* has been normalised.
C14_Witness ==
    /\ Transformed
    /\ raw_message = <<"a", "\n", "\r", "\n">>
    /\ data_to_send = <<"a", "\r", "\n", "\r", "\n">>

\* C16: the content written after DATA neither begins with ".CRLF" nor
\* holds "CRLF.CRLF".
C16_NoLoneDotLineInPayload ==
    Len(sent) >= NRcpt + 4 => ~HasLoneDotLine(sent[NRcpt + 4])

\* C16 witness: a content with a bare CR and a line that is only "." has
\* been written.
C16_Witness ==
    /\ raw_message = <<"\r", "\n", ".", "\n">>
    /\ Len(sent) >= NRcpt + 4
    /\ sent[NRcpt + 4] = <<"\r", "\n", ".", ".", "\r", "\n", "\r", "\n">>

\* C15: a reply that ends with CRLF ends at its first CRLF, and a reply is
\* accepted (the call went on past it, or stopped later for another cause
\* than a reply check) exactly when its first three non-blank characters are
\* the digits of the step's code.
C15_AcceptedIffStartsWithCode ==
    \A k \in 1..Len(replies) :
        /\ Terminated(replies[k]) => SepAt(replies[k]) = {Len(replies[k]) - 1}
        /\ Matched(replies[k], ExpectedCodes[k]) <=>
              \/ k < Len(replies)
              \/ exc.type # "Exception" /\ printed.type # "Exception"

\* C15 witness: " 220" was accepted as greeting, "2501" as the reply to EHLO,
\* and "550" was rejected where 250 was expected.
C15_Witness ==
    /\ Failure
    /\ replies = << <<" ", "2", "2", "0", "\r", "\n">>,
                    <<"2", "5", "0", "1", "\r", "\n">>,
                    <<"5", "5", "0", "\r", "\n">> >>

\* The reply to the terminator was read and starts with 250.
Acknowledged ==
    /\ Len(replies) >= NRcpt + 5
    /\ Matched(replies[NRcpt + 5], 250)

\* C17 (as claimed): a call that returned False read no 250 to the terminator.
C17_FailureMeansNotAcknowledged ==
    Failure => ~Acknowledged

\* C17 (amended): a call that returned True read a 250 to the terminator;
\* a call that returned False after reading one failed at the QUIT step:
\* it wrote nothing after QUIT, and a reply to QUIT, if one was read, does
\* not start with 221.
C17_SuccessMeansAcknowledged ==
    /\ Success => Acknowledged
    /\ Failure /\ Acknowledged =>
          /\ Len(sent) \in {NRcpt + 5, NRcpt + 6}
          /\ Len(replies) = NRcpt + 6 => ~Matched(replies[NRcpt + 6], 221)
          /\ Len(replies) = NRcpt + 5 => printed.type # "Exception"

\* C17 witness: the terminator was acknowledged, QUIT was answered 550 and
\* the call has returned False.
C17_Witness ==
    /\ Failure
    /\ Acknowledged
    /\ Len(replies) = NRcpt + 6
    /\ replies[NRcpt + 6] = <<"5", "5", "0", "\r", "\n">>

\* ------------------------------- vocabulary of the claim on concurrency
\* The call of thread c, running or not.
View(c) == IF cur = c THEN Running ELSE parked

\* The call v is where a call with these arguments can be when it runs
\* alone: its arguments are its own, it has at most one connection, which is
\* open while the conversation lasts and closed once it has returned; what
\* it wrote is a prefix of its own script, each write after the replies
\* before it; and its outcome is True exactly when its own replies are
\* complete and matched.
AsIfAlone(v, from, rcpts, msg) ==
    LET codes == ExpectedCodesOf(Len(rcpts))
        matched(k) == /\ Len(v.replies) >= k
                      /\ \A j \in 1..k : Matched(v.replies[j], codes[j])
        before(w) == IF w <= Len(rcpts) + 4 THEN w ELSE w - 1
    IN  /\ v.mail_from = from
        /\ v.rcpt_to_list = rcpts
        /\ v.raw_message = msg
        /\ v.opened <= 1
        /\ v.opened = 0 <=> v.s = "None"
        /\ v.pc \in ReadPcs \cup SendPcs \cup {"transform", "return"} =>
              v.s = "open"
        /\ v.pc = "returned" /\ v.opened = 1 => v.s = "closed"
        /\ Len(v.sent) <= Len(ScriptOf(from, rcpts, msg))
        /\ v.sent = SubSeq(ScriptOf(from, rcpts, msg), 1, Len(v.sent))
        /\ Len(v.sent) > 0 => matched(before(Len(v.sent)))
        /\ Len(v.replies) <= Len(v.sent) + 1
        /\ v.pc = "returned" =>
              /\ v.ret \in {"True", "False"}
              /\ v.ret = "True" <=> matched(Len(codes))

\* C18: with two calls interleaved in any way, each call is at every moment
\* where it could be had it run alone with its own arguments and its own
\* peer's replies; in particular its connection stays open until the call
\* itself closes it.
C18_CallsDoNotInterfere ==
    /\ AsIfAlone(View(1), "alice@mydomain.com", <<"bob@mydomain.com">>, HelloBob)
    /\ AsIfAlone(View(2), "bob@mydomain.com", <<"carol@mydomain.com">>, <<".">>)

\* C18 witness: the first call has returned True and closed its connection
\* while the second, begun before, is still waiting for the reply to DATA
\* on its own open connection.
C18_Witness ==
    /\ View(1).pc = "returned"
    /\ View(1).ret = "True"
    /\ View(1).s = "closed"
    /\ View(2).pc = "data_read"
    /\ View(2).s = "open"
    /\ Len(View(2).sent) = 4

\* ------------------------------------------------------------ the web API
\* Most sessions the model lets logins create.
MaxSessions == 2

\* request.json's value for a key the body lacks; `not x` holds of it.
None == "None"
Falsy(x) == x = None

\* The addresses of the requests, spelt as far as endswith looks.
Spelling(email) ==
    CASE email = "alice@mydomain.com" -> <<"alice", "@", "mydomain.com">>
      [] email = "bob@mydomain.com" -> <<"bob", "@", "mydomain.com">>
      [] email = "mallory@elsewhere.org" -> <<"mallory", "@", "elsewhere.org">>
      [] OTHER -> <<email>>

\* uuid4 as a string: the n-th token, different from every earlier one.
Uuid(n) == ToString(n)

RegisterRequests ==
    { [email |-> "alice@mydomain.com", password |-> "password123"],
      [email |-> "alice@mydomain.com", password |-> "hunter2"],
      [email |-> "bob@mydomain.com", password |-> "password123"],
      [email |-> "mallory@elsewhere.org", password |-> "password123"],
      [email |-> "alice@mydomain.com", password |-> None] }

LoginRequests ==
    { [email |-> "alice@mydomain.com", password |-> "password123"],
      [email |-> "alice@mydomain.com", password |-> "hunter2"],
      [email |-> "bob@mydomain.com", password |-> "password123"],
      [email |-> None, password |-> "password123"] }

Hi == <<"h", "i">>

\* A missing body is the empty text here: `not body` holds of both.
SendRequests ==
    { [token |-> tk, rcpt_to |-> "bob@mydomain.com", subject |-> "Hello",
       body |-> Hi] : tk \in {Uuid(n) : n \in 1..MaxSessions} \cup
                              {None, "forged"} }
    \cup
    { [token |-> Uuid(1), rcpt_to |-> None, subject |-> "Hello", body |-> Hi],
      [token |-> Uuid(1), rcpt_to |-> "bob@mydomain.com", subject |-> None,
       body |-> Hi],
      [token |-> Uuid(1), rcpt_to |-> "bob@mydomain.com", subject |-> "Hello",
       body |-> <<>>] }

\* d[k] = v
Put(d, k, v) == [x \in DOMAIN d \cup {k} |-> IF x = k THEN v ELSE d[x]]

conceptual_hash(password) == <<"HASH_", password, "_SALT">>

conceptual_verify_AnyPassword(email, password) ==
    email \in DOMAIN users

conceptual_verify(email, password) ==
    /\ email \in DOMAIN users
    /\ users[email].password = conceptual_hash(password)

get_user_from_token(token) ==
    IF token \in DOMAIN sessions THEN sessions[token] ELSE None

\* EmailMessage.as_string() of the message handle_send_mail builds: the
\* headers in the order they are set, set_content's two headers, an empty
\* line, and the body with a newline at its end.
as_string(sender, recipient, subject, body) ==
    <<"From: ", sender, "\n",
      "To: ", recipient, "\n",
      "Subject: ", subject, "\n",
      "Date: ", "formatdate", "\n",
      "Message-ID: ", "make_msgid", "\n",
      "MIME-Version: ", "1.0", "\n",
      "Content-Type: ", "text/plain; charset=\"utf-8\"", "\n",
      "Content-Transfer-Encoding: ", "7bit", "\n",
      "\n">>
    \o body \o (IF EndsWith(body, LF) THEN <<>> ELSE LF)

\* return jsonify(...), status
Respond(t, op, json, status, token) ==
    answered' = [by |-> t, op |-> op, json |-> json, status |-> status,
                 token |-> token]

\* The frame of send_smtp_message becomes v.
Enter(v) ==
    /\ mail_from' = v.mail_from
    /\ rcpt_to_list' = v.rcpt_to_list
    /\ raw_message' = v.raw_message
    /\ pc' = v.pc
    /\ rcpt' = v.rcpt
    /\ s' = v.s
    /\ opened' = v.opened
    /\ peer' = v.peer
    /\ wire' = v.wire
    /\ data' = v.data
    /\ sent' = v.sent
    /\ replies' = v.replies
    /\ exc' = v.exc
    /\ printed' = v.printed
    /\ ret' = v.ret
    /\ data_to_send' = v.data_to_send
    /\ stuffed_data' = v.stuffed_data

\* No call of send_smtp_message is in progress.
NoFrame == [EntryOf(None, <<>>, <<>>) EXCEPT !.pc = "none"]

Begin(t, op, json) ==
    request' = [request EXCEPT ![t] = [op |-> op, json |-> json]]

\* handle_register up to the test of `email in users`.
handle_register(t) ==
    /\ request[t] = Idle
    /\ \E json \in RegisterRequests :
          LET email == json.email
              password == json.password
          IN  IF Falsy(email) \/ Falsy(password)
              THEN /\ Respond(t, "register", json, 400, None)
                   /\ UNCHANGED request
              ELSE IF ~EndsWith(Spelling(email), <<"@", APP_DOMAIN>>)
              THEN /\ Respond(t, "register", json, 403, None)
                   /\ UNCHANGED request
              ELSE IF email \in DOMAIN users
              THEN /\ Respond(t, "register", json, 409, None)
                   /\ UNCHANGED request
              ELSE /\ Begin(t, "register", json)
                   /\ UNCHANGED answered
    /\ UNCHANGED <<users, sessions, call, cur, parked>>

\* handle_register from the assignment to users[email] on. The record's id,
\* a uuid that nothing reads, is left out.
register_store(t) ==
    /\ request[t] # Idle
    /\ request[t].op = "register"
    /\ LET json == request[t].json
       IN  /\ users' = Put(users, json.email,
                           [password |-> conceptual_hash(json.password)])
           /\ Respond(t, "register", json, 201, None)
    /\ request' = [request EXCEPT ![t] = Idle]
    /\ UNCHANGED <<sessions, call, cur, parked>>

\* handle_login, with generate_session_token.
handle_login(t) ==
    /\ request[t] = Idle
    /\ \E json \in LoginRequests :
          LET email == json.email
              password == json.password
              token == Uuid(Cardinality(DOMAIN sessions) + 1)
          IN  IF Falsy(email) \/ Falsy(password)
              THEN /\ Respond(t, "login", json, 400, None)
                   /\ UNCHANGED sessions
              ELSE IF conceptual_verify(email, password)
              THEN /\ Cardinality(DOMAIN sessions) < MaxSessions
                   /\ sessions' = Put(sessions, token, email)
                   /\ Respond(t, "login", json, 200, token)
              ELSE /\ Respond(t, "login", json, 401, None)
                   /\ UNCHANGED sessions
    /\ UNCHANGED <<users, request, call, cur, parked>>

\* handle_send_mail up to the call of send_smtp_message. The model has one
\* frame for send_smtp_message, so a request that calls it is taken when no
\* call is in progress.
handle_send_mail(t) ==
    /\ request[t] = Idle
    /\ \E json \in SendRequests :
          LET token == json.token
              sender == get_user_from_token(token)
              recipient == json.rcpt_to
              subject == json.subject
              body == json.body
          IN  IF Falsy(sender)
              THEN /\ Respond(t, "send", json, 401, None)
                   /\ UNCHANGED <<request, call>>
              ELSE IF Falsy(recipient) \/ Falsy(subject) \/ body = <<>>
              THEN /\ Respond(t, "send", json, 400, None)
                   /\ UNCHANGED <<request, call>>
              ELSE /\ pc = "none"
                   /\ Enter(EntryOf(sender, <<recipient>>,
                                    as_string(sender, recipient, subject,
                                              body)))
                   /\ Begin(t, "send", json)
                   /\ UNCHANGED answered
    /\ UNCHANGED <<users, sessions, cur, parked>>

\* handle_send_mail after send_smtp_message has returned.
send_mail_return(t) ==
    /\ request[t] # Idle
    /\ request[t].op = "send"
    /\ pc = "returned"
    /\ Respond(t, "send", request[t].json,
               IF ret = "True" THEN 200 ELSE 500, None)
    /\ Enter(NoFrame)
    /\ request' = [request EXCEPT ![t] = Idle]
    /\ UNCHANGED <<users, sessions, cur, parked>>

WebInit ==
    /\ mail_from = NoFrame.mail_from
    /\ rcpt_to_list = NoFrame.rcpt_to_list
    /\ raw_message = NoFrame.raw_message
    /\ pc = NoFrame.pc
    /\ rcpt = NoFrame.rcpt
    /\ s = NoFrame.s
    /\ opened = NoFrame.opened
    /\ peer = NoFrame.peer
    /\ wire = NoFrame.wire
    /\ data = NoFrame.data
    /\ sent = NoFrame.sent
    /\ replies = NoFrame.replies
    /\ exc = NoFrame.exc
    /\ printed = NoFrame.printed
    /\ ret = NoFrame.ret
    /\ data_to_send = NoFrame.data_to_send
    /\ stuffed_data = NoFrame.stuffed_data
    /\ SingleThread
    /\ NoRequests

WebNext ==
    \/ \E t \in Threads : handle_register(t)
    \/ \E t \in Threads : register_store(t)
    \/ \E t \in Threads : handle_login(t)
    \/ \E t \in Threads : handle_send_mail(t)
    \/ \E t \in Threads : send_mail_return(t)
    \/ Connect
    \/ ConnectFail
    \/ PeerExpected
    \/ Recv
    \/ Transform
    \/ SendAll
    \/ ReturnTrue
    \/ Except
    \/ Finally

WebSpec == WebInit /\ [][WebNext]_vars

\* ---------------------------------------- vocabulary of the web API claims
\* This step sends a response to a request of kind op.
Answers(op) ==
    /\ answered' # answered
    /\ answered'.op = op

\* What is stored for a user whose password is this one.
StoredFor(password) == [password |-> <<"HASH_", password, "_SALT">>]

\* C19: a registration is answered 201 only for an address that is not
\* registered yet, so that at most one request per address gets 201, and it
\* stores the password of that request; a registration for a registered
\* address is answered 409; and what is stored for a registered address
\* never changes afterwards, whatever requests are handled, one after the
\* other or at once.
C19_RegisteredAtMostOnce ==
    [][ /\ Answers("register") /\ answered'.status = 201 =>
              /\ answered'.json.email \notin DOMAIN users
              /\ answered'.json.email \in DOMAIN users'
              /\ users'[answered'.json.email] =
                     StoredFor(answered'.json.password)
        /\ Answers("register") /\ answered'.json.email \in DOMAIN users =>
              answered'.status \in {400, 409}
        /\ \A email \in DOMAIN users :
              /\ email \in DOMAIN users'
              /\ users'[email] = users[email]
      ]_vars

\* Every token of the session map maps to a registered address.
SessionsAreOfUsers ==
    \A token \in DOMAIN sessions : sessions[token] \in DOMAIN users

\* A call of send_smtp_message is the call of a /api/send request whose
\* token is in the session map and whose recipient, subject and body are
\* there; its reverse-path is the address of that token and its envelope
\* that one recipient.
CallIsOfAuthorisedRequest ==
    pc # "none" =>
        \E t \in Threads :
            /\ request[t] # Idle
            /\ request[t].op = "send"
            /\ request[t].json.token \in DOMAIN sessions
            /\ request[t].json.rcpt_to # "None"
            /\ request[t].json.subject # "None"
            /\ request[t].json.body # <<>>
            /\ mail_from = sessions[request[t].json.token]
            /\ Len(rcpt_to_list) = 1
            /\ rcpt_to_list[1] = request[t].json.rcpt_to

\* The session map changes only by one new token, given in the 200 of a
\* login whose password is the one stored for its address; that address is
\* what the token maps to.
TokenIssuedOnVerifiedLogin ==
    sessions' # sessions =>
        /\ Answers("login")
        /\ answered'.status = 200
        /\ answered'.token \notin DOMAIN sessions
        /\ DOMAIN sessions' = DOMAIN sessions \cup {answered'.token}
        /\ \A token \in DOMAIN sessions : sessions'[token] = sessions[token]
        /\ sessions'[answered'.token] = answered'.json.email
        /\ answered'.json.email \in DOMAIN users
        /\ users[answered'.json.email] = StoredFor(answered'.json.password)

\* A /api/send request whose token is not in the session map is answered
\* 401, and the step that answers it starts no call and opens nothing.
UnknownTokenRefused ==
    Answers("send") /\ answered'.json.token \notin DOMAIN sessions =>
        /\ answered'.status = 401
        /\ pc' = pc
        /\ opened' = opened
        /\ s' = s

\* C20: every token of the session map maps to a registered address and was
\* issued by a login whose password matched; send_smtp_message is called
\* only for a request with a known token and a recipient, subject and body,
\* with the token's address as reverse-path and exactly one recipient; a
\* request with a missing or unknown token gets 401 and opens no connection.
C20_SessionsVerifiedSendsAuthorised ==
    /\ [](SessionsAreOfUsers /\ CallIsOfAuthorisedRequest)
    /\ [][TokenIssuedOnVerifiedLogin /\ UnknownTokenRefused]_vars

\* C20 witness: two sessions exist, one of alice and one of bob; a call for
\* bob's token has its connection open with bob as reverse-path, and the
\* other thread's request with a forged token has just been answered 401.
C20_Witness ==
    /\ DOMAIN sessions = {"1", "2"}
    /\ sessions["1"] = "alice@mydomain.com"
    /\ sessions["2"] = "bob@mydomain.com"
    /\ request[1] # Idle
    /\ request[1].op = "send"
    /\ request[1].json.token = "2"
    /\ mail_from = "bob@mydomain.com"
    /\ rcpt_to_list = <<"bob@mydomain.com">>
    /\ s = "open"
    /\ opened = 1
    /\ answered.by = 2
    /\ answered.op = "send"
    /\ answered.json.token = "forged"
    /\ answered.status = 401

====
